---- MODULE Spec2Model ----
(***************************************************************************)
(* partycluster.py: deduplicating event store, space-time interval,        *)
(* agglomerative clustering cut at a threshold, and the party report.      *)
(***************************************************************************)
EXTENDS Integers, Sequences, FiniteSets

(* ------------------------------ bounds --------------------------------- *)

\* Longest feed (number of usable entries getEvents returns for one feed).
MaxBatch == 2

\* Grid spacing of the sampled timestamps (seconds).
Step == 60

\* '%H:%M' in partyPrint's strftime: a printed timestamp has minute resolution.
SecondsPerMinute == 60

(* ------------------------------ inputs --------------------------------- *)

\* Author names and URIs as the feeds give them; some contain the text the
\* key is built with.
Names == {"a", "a <b"}
Uris == {"c", "b <c"}

\* Publication times, in seconds.
Times == {0, Step}

\* georss:point values, <<latitude, longitude>> in millionths of a degree:
\* 0 N 0 E and a place about 120 m to its north-east.
Points == {<<0, 0>>, <<767, 762>>}

\* Thresholds the command line can give (metres).
Thresholds == {0, 120}

\* Event.__init__
Event ==
    {[name |-> n, uri |-> u, datetime |-> t, latitude |-> p[1], longitude |-> p[2]] :
        n \in Names, u \in Uris, t \in Times, p \in Points}

\* A wider sample of times, places and thresholds, for the runs that start
\* from a filled store: the third place lies about 60 m north of the first.
WideTimes == {0, Step, 2 * Step}
WidePoints == Points \cup {<<543, 0>>}
WideThresholds == {0, 60, 105, 120}

WideEvent ==
    {[name |-> n, uri |-> u, datetime |-> t, latitude |-> p[1], longitude |-> p[2]] :
        n \in Names, u \in Uris, t \in WideTimes, p \in WidePoints}

RECURSIVE SeqsUpTo(_, _)
SeqsUpTo(S, n) ==
    IF n = 0 THEN {<<>>}
    ELSE LET shorter == SeqsUpTo(S, n - 1)
         IN  shorter \cup {Append(s, x) : s \in {t \in shorter : Len(t) = n - 1}, x \in S}

\* What getEvents can return for one feed.
Batches == SeqsUpTo(Event, MaxBatch)

Range(s) == {s[i] : i \in DOMAIN s}

Abs(x) == IF x < 0 THEN -x ELSE x

(* ---------------------------- event store ------------------------------ *)

EmptyStore == [k \in {} |-> k]

\* key = new_event.name + ' <' + new_event.uri + '>'
key(e) == e.name \o " <" \o e.uri \o ">"

Put(store, k, e) == [j \in DOMAIN store \cup {k} |-> IF j = k THEN e ELSE store[j]]

Remove(store, k) == [j \in DOMAIN store \ {k} |-> store[j]]

\* Variants of the loop body with one slip each, for comparison.
\* The comparison turned round: the older event wins.
updateEventsStepOlder(current_events, new_event) ==
    LET k == key(new_event)
    IN  IF k \in DOMAIN current_events
        THEN IF new_event.datetime < current_events[k].datetime
             THEN Put(current_events, k, new_event)
             ELSE current_events
        ELSE Put(current_events, k, new_event)

\* >= for >: on a tie the later arrival wins.
updateEventsStepTie(current_events, new_event) ==
    LET k == key(new_event)
    IN  IF k \in DOMAIN current_events
        THEN IF new_event.datetime >= current_events[k].datetime
             THEN Put(current_events, k, new_event)
             ELSE current_events
        ELSE Put(current_events, k, new_event)

\* current_events.pop(key) for current_events[key]: an event that is not
\* newer removes the entry.
updateEventsStepPop(current_events, new_event) ==
    LET k == key(new_event)
    IN  IF k \in DOMAIN current_events
        THEN IF new_event.datetime > current_events[k].datetime
             THEN Put(current_events, k, new_event)
             ELSE Remove(current_events, k)
        ELSE Put(current_events, k, new_event)

\* The comparison left out: the last arrival wins.
updateEventsStepLast(current_events, new_event) ==
    Put(current_events, key(new_event), new_event)

\* One iteration of updateEvents' loop.
updateEventsStep(current_events, new_event) ==
    LET k == key(new_event)
    IN  IF k \in DOMAIN current_events
        THEN IF new_event.datetime > current_events[k].datetime
             THEN Put(current_events, k, new_event)
             ELSE current_events
        ELSE Put(current_events, k, new_event)

RECURSIVE updateEvents(_, _)
updateEvents(current_events, new_events) ==
    IF new_events = <<>> THEN current_events
    ELSE updateEvents(updateEventsStep(current_events, Head(new_events)),
                      Tail(new_events))

\* current_events.values(), as a set
values(store) == {store[k] : k \in DOMAIN store}

(* --------------------------- distance metric --------------------------- *)

\* A float of the program is held in fixed point, as a whole number of
\* hundredths; Fixed is the conversion of a whole number.
Fixed(n) == 100 * n

\* The whole part of the square root.
RECURSIVE Newton(_, _)
Newton(n, x) ==
    LET y == (x + n \div x) \div 2
    IN  IF y >= x THEN x ELSE Newton(n, y)

Hypot(x, y) ==
    IF x = 0 THEN y
    ELSE IF y = 0 THEN x
    ELSE Newton(x * x + y * y, x + y)

\* distance.distance(p, q).m: the length in metres (here in hundredths) of
\* the geodesic on the WGS-84 ellipsoid between two points given in
\* millionths of a degree.  Near 0 N 0 E, where the sampled points lie, a
\* degree of latitude is 110574 m of meridian and a degree of longitude
\* 111319 m of equator, and over a few hundred metres the geodesic is the
\* hypotenuse of the two arcs to well within a hundredth of a metre.
geodesic(lat1, lon1, lat2, lon2) ==
    LET north == (Abs(lat1 - lat2) * 110574 + 5000) \div 10000
        east == (Abs(lon1 - lon2) * 111319 + 5000) \div 10000
    IN  Hypot(north, east)

\* In hundredths of a metre.
spatialDistance(a, b) ==
    geodesic(a.latitude, a.longitude, b.latitude, b.longitude)

\* In hundredths of a second; the timestamps are whole seconds.
temporalDistance(a, b) == Fixed(Abs(a.datetime - b.datetime))

\* A distance: the real number sqrt(sq) of hundredths, held exactly by its
\* radicand, or float('inf').
inf == [inf |-> TRUE, sq |-> 0]

\* math.sqrt on a non-negative argument (a negative one raises ValueError).
sqrt(x) == [inf |-> FALSE, sq |-> x]

\* x <= y on distances; sqrt is monotone, so radicands compare as the roots do.
LessEq(x, y) == y.inf \/ (~x.inf /\ x.sq <= y.sq)

Less(x, y) == ~LessEq(y, x)

\* The integer threshold int(argv[2]) as a distance.
AsDistance(t) == sqrt(Fixed(t) * Fixed(t))

\* A variant of the interval with the two squares the wrong way round (the
\* time-like interval).
spacelikeIntervalTimelike(a, b) ==
    LET delta_r == spatialDistance(a, b)
        delta_t == temporalDistance(a, b)
        c == 1
        radicand == (c * delta_t * delta_t) - delta_r * delta_r
    IN  IF radicand < 0 THEN inf ELSE sqrt(radicand)

spacelikeInterval(a, b) ==
    LET delta_r == spatialDistance(a, b)
        delta_t == temporalDistance(a, b)
        c == 1
        radicand == delta_r * delta_r - (c * delta_t * delta_t)
    IN  IF radicand < 0
        THEN inf                \* except ValueError
        ELSE sqrt(radicand)

Max(S) == IF S = {} THEN 0 ELSE CHOOSE m \in S : \A x \in S : x <= m

maximumSpatialDistance(events) ==
    Max({spatialDistance(events[p[1]], events[p[2]]) :
            p \in {q \in (DOMAIN events) \X (DOMAIN events) : events[q[1]] # events[q[2]]}})

maximumTemporalDistance(events) ==
    Max({temporalDistance(events[p[1]], events[p[2]]) :
            p \in {q \in (DOMAIN events) \X (DOMAIN events) : events[q[1]] # events[q[2]]}})

(* -------------------------- clustering engine -------------------------- *)

\* A node of the merge tree: an event, or two nodes merged at a distance.
Leaf(e) == [leaf |-> TRUE, level |-> sqrt(0), members |-> <<e>>, kids |-> <<>>]

Merged(d, left, right) ==
    [leaf |-> FALSE, level |-> d,
     members |-> left.members \o right.members, kids |-> <<left, right>>]

\* Single linkage: the smallest interval between a member of x and one of y.
linkage(x, y) ==
    LET ds == {spacelikeInterval(a, b) : a \in Range(x.members), b \in Range(y.members)}
    IN  CHOOSE d \in ds : \A e \in ds : LessEq(d, e)

Pairs(items) == {p \in (DOMAIN items) \X (DOMAIN items) : p[1] < p[2]}

\* The pair of clusters with the smallest distance; among equals the first
\* in the order of the list.
smallestPair(items) ==
    LET closest == {p \in Pairs(items) :
                      \A q \in Pairs(items) :
                         LessEq(linkage(items[p[1]], items[p[2]]),
                                linkage(items[q[1]], items[q[2]]))}
    IN  CHOOSE p \in closest :
           \A q \in closest : p[1] < q[1] \/ (p[1] = q[1] /\ p[2] <= q[2])

Without(items, i, j) ==
    LET keep == {k \in DOMAIN items : k # i /\ k # j}
        RECURSIVE pick(_)
        pick(k) == IF k > Len(items) THEN <<>>
                   ELSE (IF k \in keep THEN <<items[k]>> ELSE <<>>) \o pick(k + 1)
    IN  pick(1)

\* Merge the closest pair until one cluster is left.
RECURSIVE agglomerate(_)
agglomerate(items) ==
    IF Len(items) <= 1 THEN items
    ELSE LET p == smallestPair(items)
             m == Merged(linkage(items[p[1]], items[p[2]]), items[p[1]], items[p[2]])
         IN  agglomerate(Append(Without(items, p[1], p[2]), m))

\* HierarchicalClustering(data, spacelikeInterval), clustered.
HierarchicalClustering(data) == agglomerate([i \in DOMAIN data |-> Leaf(data[i])])

\* Variants of the cut with one slip each: < for <=, and the comparison
\* turned round.
RECURSIVE cutStrict(_, _)
cutStrict(node, t) ==
    IF node.leaf \/ Less(node.level, AsDistance(t))
    THEN <<node.members>>
    ELSE cutStrict(node.kids[1], t) \o cutStrict(node.kids[2], t)

RECURSIVE cutAbove(_, _)
cutAbove(node, t) ==
    IF node.leaf \/ LessEq(AsDistance(t), node.level)
    THEN <<node.members>>
    ELSE cutAbove(node.kids[1], t) \o cutAbove(node.kids[2], t)

\* The subtrees merged at a distance <= t, and the events left over.
RECURSIVE cut(_, _)
cut(node, t) ==
    IF node.leaf \/ LessEq(node.level, AsDistance(t))
    THEN <<node.members>>
    ELSE cut(node.kids[1], t) \o cut(node.kids[2], t)

getlevel(clustering, t) ==
    IF clustering = <<>> THEN <<>> ELSE cut(clustering[1], t)

\* Every node of a merge tree.
RECURSIVE Nodes(_)
Nodes(node) ==
    {node} \cup (IF node.leaf THEN {} ELSE Nodes(node.kids[1]) \cup Nodes(node.kids[2]))

\* The orders in which a dict can hand out its values.
Orderings(S) ==
    {s \in [1..Cardinality(S) -> S] : \A i, j \in 1..Cardinality(S) : s[i] = s[j] => i = j}

(* ------------------------------ reporting ------------------------------ *)

\* list.sort(key=lambda e: e.datetime): stable, ascending.
RECURSIVE insert(_, _)
insert(sorted, e) ==
    IF sorted = <<>> THEN <<e>>
    ELSE IF sorted[Len(sorted)].datetime <= e.datetime THEN Append(sorted, e)
    ELSE Append(insert(SubSeq(sorted, 1, Len(sorted) - 1), e), sorted[Len(sorted)])

RECURSIVE sort(_)
sort(cluster) ==
    IF cluster = <<>> THEN <<>>
    ELSE insert(sort(SubSeq(cluster, 1, Len(cluster) - 1)), cluster[Len(cluster)])

\* datetime.strftime('%d.%m. %H:%M'): the minute the timestamp lies in; the
\* seconds are dropped.
strftime(t) == t \div SecondsPerMinute

\* What partyPrint writes for a cluster (given sorted): the names, the extent
\* and the two timestamps of the second line.
announcement(cluster) ==
    LET timestamps == [i \in DOMAIN cluster |-> strftime(cluster[i].datetime)]
    IN  [names |-> [i \in DOMAIN cluster |-> cluster[i].name],
         spatialExtent |-> maximumSpatialDistance(cluster),
         von |-> timestamps[1],
         bis |-> timestamps[2]]

(* ------------------------------- state --------------------------------- *)

VARIABLES pc, threshold, current_events, submitted, clustering, clusters, position, stdout

vars == <<pc, threshold, current_events, submitted, clustering, clusters, position, stdout>>

Author(e) == <<e.name, e.uri>>

KeyOf(p) == key([name |-> p[1], uri |-> p[2]])

\* History of the run: for every author (name, uri) ever submitted, the
\* newest timestamp submitted for it.
Record(sub, batch) ==
    LET seen == DOMAIN sub \cup {Author(batch[n]) : n \in DOMAIN batch}
        stamps(p) == {batch[n].datetime : n \in {j \in DOMAIN batch : Author(batch[j]) = p}}
                     \cup (IF p \in DOMAIN sub THEN {sub[p]} ELSE {})
    IN  [p \in seen |-> CHOOSE t \in stamps(p) : \A u \in stamps(p) : u <= t]

\* threshold = int(argv[2]); current_events = {}
Init ==
    /\ pc = "ingest"
    /\ threshold \in Thresholds
    /\ current_events = EmptyStore
    /\ submitted = EmptyStore
    /\ clustering = <<>>
    /\ clusters = <<>>
    /\ position = 1
    /\ stdout = <<>>

\* One feed of the list: events = getEvents(...); updateEvents(current_events, events)
Ingest ==
    /\ pc = "ingest"
    /\ \E events \in Batches :
          /\ current_events' = updateEvents(current_events, events)
          /\ submitted' = Record(submitted, events)
    /\ UNCHANGED <<pc, threshold, clustering, clusters, position, stdout>>

\* End of the feed list: build the hierarchy and cut it at the threshold.
Cluster ==
    /\ pc = "ingest"
    /\ \E data \in Orderings(values(current_events)) :
          /\ clustering' = HierarchicalClustering(data)
          /\ clusters' = getlevel(clustering', threshold)
    /\ pc' = "report"
    /\ UNCHANGED <<threshold, current_events, submitted, position, stdout>>

\* An exception while one feed of the list is handled ends the run.  The
\* request or getEvents raises before anything is stored; updateEvents raises
\* on an entry whose name or uri is None (the key cannot be built) with the
\* entries before it already stored; progress.update comes after the whole
\* feed is stored.  events are the entries stored before the exception.
IngestRaises ==
    /\ pc = "ingest"
    /\ \E events \in Batches :
          /\ current_events' = updateEvents(current_events, events)
          /\ submitted' = Record(submitted, events)
    /\ pc' = "ingest raised"
    /\ UNCHANGED <<threshold, clustering, clusters, position, stdout>>

\* for cluster in clusters: if len(cluster) > 2: partyPrint(cluster, threshold)
\* with every getPlaceName answered: the cluster is sorted in place and the
\* two writes follow.
Announce ==
    /\ pc = "report"
    /\ position <= Len(clusters)
    /\ Len(clusters[position]) > 2
    /\ LET sorted == sort(clusters[position])
       IN  /\ clusters' = [clusters EXCEPT ![position] = sorted]
           /\ stdout' = Append(stdout, announcement(sorted))
    /\ position' = position + 1
    /\ UNCHANGED <<pc, threshold, current_events, submitted, clustering>>

\* partyPrint with a getPlaceName that raises (the request fails, or the
\* answer has no geoname/toponymName): the cluster is already sorted in
\* place, nothing is written and the exception ends the run.
AnnounceRaises ==
    /\ pc = "report"
    /\ position <= Len(clusters)
    /\ Len(clusters[position]) > 2
    /\ clusters' = [clusters EXCEPT ![position] = sort(clusters[position])]
    /\ pc' = "report raised"
    /\ UNCHANGED <<threshold, current_events, submitted, clustering, position, stdout>>

Skip ==
    /\ pc = "report"
    /\ position <= Len(clusters)
    /\ Len(clusters[position]) <= 2
    /\ position' = position + 1
    /\ UNCHANGED <<pc, threshold, current_events, submitted, clustering, clusters, stdout>>

Exit ==
    /\ pc = "report"
    /\ position > Len(clusters)
    /\ pc' = "done"
    /\ UNCHANGED <<threshold, current_events, submitted, clustering, clusters, position, stdout>>

Next ==
    Ingest \/ IngestRaises \/ Cluster \/ Announce \/ AnnounceRaises \/ Skip \/ Exit

Spec == Init /\ [][Next]_vars

(* ------------------- clustering from a filled store ------------------- *)

Keys == {key(e) : e \in WideEvent}

\* The stores a run can have built when the feed list ends: under each key
\* an event of that key.
Stores ==
    UNION {{s \in [K -> WideEvent] : \A k \in K : key(s[k]) = k} : K \in SUBSET Keys}

\* The feeds are read: current_events is any store, threshold any threshold.
Filled ==
    /\ pc = "ingest"
    /\ threshold \in WideThresholds
    /\ current_events \in Stores
    /\ submitted = [p \in {Author(e) : e \in values(current_events)} |->
                       current_events[KeyOf(p)].datetime]
    /\ clustering = <<>>
    /\ clusters = <<>>
    /\ position = 1
    /\ stdout = <<>>

Rest == Cluster \/ Announce \/ AnnounceRaises \/ Skip \/ Exit

ClusterSpec == Filled /\ [][Rest]_vars

(* ------------------------- event store properties --------------------- *)

\* C1: during the run, for every key in the store, the stored event's
\* timestamp is at least the timestamp of every event submitted so far
\* under that key, in earlier feeds or earlier in the same feed.
C1_Recency ==
    \A k \in DOMAIN current_events :
       \A p \in DOMAIN submitted :
          KeyOf(p) = k => current_events[k].datetime >= submitted[p]

\* An older event and a newer one were submitted under one key, and the
\* store holds the newer.
C1_Witness ==
    \E p \in DOMAIN submitted :
       /\ KeyOf(p) \in DOMAIN current_events
       /\ Author(current_events[KeyOf(p)]) # p
       /\ submitted[p] < current_events[KeyOf(p)].datetime

\* The feeds A, B the order claims range over: together at most as many
\* entries as the longest single feed.
FeedPairs ==
    UNION {{<<A, B>> : B \in SeqsUpTo(Event, MaxBatch - Len(A))} : A \in Batches}

Reorderings(s) ==
    {[n \in DOMAIN s |-> s[f[n]]] :
        f \in {g \in [DOMAIN s -> DOMAIN s] : \A m, n \in DOMAIN s : g[m] = g[n] => m = n}}

\* The distinct events of key k, among those given, that carry the newest
\* timestamp given for k.
Newest(given, k) ==
    LET mine == {e \in given : key(e) = k}
    IN  {e \in mine : \A f \in mine : f.datetime <= e.datetime}

SameKeysAndTimes(s, t) ==
    /\ DOMAIN s = DOMAIN t
    /\ \A k \in DOMAIN s : s[k].datetime = t[k].datetime

\* Stores s and t, both made from the events given, agree in the way the
\* update rule guarantees.
AgreeUpToTies(s, t, given) ==
    /\ SameKeysAndTimes(s, t)
    /\ \A k \in DOMAIN s : Cardinality(Newest(given, k)) = 1 => s[k] = t[k]

\* C2 as stated: from the empty store, feeds A then B leave the same store
\* as B then A, and a feed leaves the same store in any order of its entries.
C2_OrderIndependent ==
    current_events = EmptyStore =>
       /\ \A ab \in FeedPairs :
             updateEvents(updateEvents(current_events, ab[1]), ab[2])
                = updateEvents(updateEvents(current_events, ab[2]), ab[1])
       /\ \A A \in Batches : \A B \in Reorderings(A) :
             updateEvents(current_events, A) = updateEvents(current_events, B)

\* C2 amended: from the empty store, either order leaves the same keys with
\* the same stored timestamps, and the same stored event for every key whose
\* newest timestamp is carried by one event only.
C2_OrderIndependentUpToTies ==
    current_events = EmptyStore =>
       /\ \A ab \in FeedPairs :
             AgreeUpToTies(updateEvents(updateEvents(current_events, ab[1]), ab[2]),
                           updateEvents(updateEvents(current_events, ab[2]), ab[1]),
                           Range(ab[1]) \cup Range(ab[2]))
       /\ \A A \in Batches : \A B \in Reorderings(A) :
             AgreeUpToTies(updateEvents(current_events, A),
                           updateEvents(current_events, B), Range(A))

\* The store is empty and two feeds with an older and a newer event of one
\* key leave the newer in either order.
C2_Witness ==
    /\ current_events = EmptyStore
    /\ \E ab \in FeedPairs :
          /\ Len(ab[1]) = 1 /\ Len(ab[2]) = 1
          /\ key(ab[1][1]) = key(ab[2][1])
          /\ ab[1][1].datetime < ab[2][1].datetime
          /\ ab[1][1].latitude # ab[2][1].latitude
          /\ updateEvents(updateEvents(current_events, ab[1]), ab[2])[key(ab[1][1])] = ab[2][1]
          /\ updateEvents(updateEvents(current_events, ab[2]), ab[1])[key(ab[1][1])] = ab[2][1]

\* C3: updating the store with one event inserts it when its key is absent,
\* replaces the stored event exactly when the incoming timestamp is strictly
\* greater, leaves the whole store unchanged when it is older or equal, and
\* never touches another key.
C3_SingleEventRule ==
    \A e \in Event :
       LET k == key(e)
           after == updateEvents(current_events, <<e>>)
       IN  /\ k \notin DOMAIN current_events =>
                 /\ DOMAIN after = DOMAIN current_events \cup {k}
                 /\ after[k] = e
           /\ k \in DOMAIN current_events =>
                 /\ DOMAIN after = DOMAIN current_events
                 /\ (after[k] # current_events[k]) <=>
                       (e.datetime > current_events[k].datetime /\ e # current_events[k])
                 /\ e.datetime > current_events[k].datetime => after[k] = e
                 /\ e.datetime <= current_events[k].datetime => after = current_events
           /\ \A j \in DOMAIN current_events \ {k} : after[j] = current_events[j]

\* An event tied with the stored one of its key was submitted and the
\* first-seen event stayed, while another key is in the store too.
C3_Witness ==
    /\ Cardinality(DOMAIN current_events) >= 2
    /\ \E p \in DOMAIN submitted :
          /\ KeyOf(p) \in DOMAIN current_events
          /\ Author(current_events[KeyOf(p)]) # p
          /\ submitted[p] = current_events[KeyOf(p)].datetime

\* C4: for the store reached and every feed B, updating with B twice leaves
\* the same store as updating with B once.
C4_Idempotent ==
    pc = "ingest" =>
       \A B \in Batches :
          updateEvents(updateEvents(current_events, B), B) = updateEvents(current_events, B)

\* A non-empty store and a feed with two tied, different events of one key,
\* which changes the store.
C4_Witness ==
    /\ pc = "ingest"
    /\ current_events # EmptyStore
    /\ \E B \in Batches :
          /\ Len(B) = 2
          /\ key(B[1]) = key(B[2])
          /\ B[1].datetime = B[2].datetime
          /\ B[1] # B[2]
          /\ updateEvents(current_events, B) # current_events

\* C5: every author (name, uri) submitted so far has a store entry of its
\* own: the entry under its key holds an event of that author, so events of
\* two different (name, uri) pairs never share an entry.
C5_KeyUnambiguous ==
    \A p \in DOMAIN submitted :
       /\ KeyOf(p) \in DOMAIN current_events
       /\ Author(current_events[KeyOf(p)]) = p

(* ------------------- metric, clustering and report properties --------- *)

Clustered == pc \in {"report", "report raised", "done"}

Tree == IF clustering = <<>> THEN {} ELSE Nodes(clustering[1])

Merges == {n \in Tree : ~n.leaf}

Disconnected(a, b) == temporalDistance(a, b) > spatialDistance(a, b)

\* C6: for all stored events a and b, spacelikeInterval(a, b) is finite
\* exactly when their temporal distance is at most their spatial distance,
\* and infinite otherwise; the distance recorded for a merge of two single
\* events is that value.
C6_FiniteIffSpacelike ==
    /\ \A a, b \in values(current_events) :
          /\ ~spacelikeInterval(a, b).inf <=> temporalDistance(a, b) <= spatialDistance(a, b)
          /\ spacelikeInterval(a, b).inf => spacelikeInterval(a, b) = inf
    /\ \A m \in Merges :
          m.kids[1].leaf /\ m.kids[2].leaf =>
             (m.level.inf <=> Disconnected(m.members[1], m.members[2]))

\* The hierarchy is built over three events, two of them disconnected and
\* two a positive finite interval apart in both space and time.
C6_Witness ==
    /\ Clustered
    /\ \E a, b \in values(current_events) : spacelikeInterval(a, b).inf
    /\ \E a, b \in values(current_events) :
          /\ ~spacelikeInterval(a, b).inf
          /\ spacelikeInterval(a, b).sq > 0
          /\ temporalDistance(a, b) > 0
    /\ Cardinality(Merges) = 2

\* C7: no returned cluster holds two events whose temporal distance exceeds
\* their spatial distance.
C7_NeverTogether ==
    Clustered =>
       \A n \in DOMAIN clusters :
          \A a, b \in Range(clusters[n]) : ~Disconnected(a, b)

\* C8: the returned clusters are a partition of the stored events (none for
\* an empty store, an event never merged within the threshold alone in its
\* cluster); the members of every merge made at a distance <= threshold lie
\* in one returned cluster; and no two different returned clusters are the
\* two sides of a merge made at a distance <= threshold.
C8_LevelCut ==
    Clustered =>
       /\ \A e \in values(current_events) :
             Cardinality({n \in DOMAIN clusters : e \in Range(clusters[n])}) = 1
       /\ \A n \in DOMAIN clusters :
             /\ clusters[n] # <<>>
             /\ Range(clusters[n]) \subseteq values(current_events)
             /\ Cardinality(Range(clusters[n])) = Len(clusters[n])
       /\ values(current_events) = {} => clusters = <<>>
       /\ \A m \in Merges :
             LessEq(m.level, AsDistance(threshold)) =>
                \E n \in DOMAIN clusters : Range(m.members) \subseteq Range(clusters[n])
       /\ \A m \in Merges : \A n1, n2 \in DOMAIN clusters :
             /\ n1 # n2
             /\ Range(m.kids[1].members) = Range(clusters[n1])
             /\ Range(m.kids[2].members) = Range(clusters[n2])
             => ~LessEq(m.level, AsDistance(threshold))
       /\ \A m \in Merges : \A side \in 1..2 :
             m.kids[side].leaf /\ ~LessEq(m.level, AsDistance(threshold)) =>
                \E n \in DOMAIN clusters : Range(clusters[n]) = Range(m.kids[side].members)

\* Three events, of which two were merged at a positive distance within
\* the threshold and the third only above it: two clusters are returned.
C8_Witness ==
    /\ Clustered
    /\ Cardinality(values(current_events)) = 3
    /\ Len(clusters) = 2
    /\ \E m \in Merges : m.level.sq > 0 /\ LessEq(m.level, AsDistance(threshold))
    /\ \E m \in Merges : ~LessEq(m.level, AsDistance(threshold))

\* The thresholds the cuts are compared at.
Cuts == WideThresholds \cup {2, 3, 88, 89}

\* C9: for thresholds t1 < t2, every cluster of the cut at t1 is a subset of
\* exactly one cluster of the cut at t2.
C9_Monotone ==
    Clustered =>
       \A t1, t2 \in Cuts :
          t1 < t2 =>
             LET fine == getlevel(clustering, t1)
                 coarse == getlevel(clustering, t2)
             IN  \A n \in DOMAIN fine :
                    Cardinality({m \in DOMAIN coarse :
                                    Range(fine[n]) \subseteq Range(coarse[m])}) = 1

\* A hierarchy of three events that three thresholds cut into three, two
\* and one clusters.
C9_Witness ==
    /\ Clustered
    /\ Cardinality(values(current_events)) = 3
    /\ \E t1, t2, t3 \in Cuts :
          /\ t1 < t2 /\ t2 < t3
          /\ Len(getlevel(clustering, t1)) = 3
          /\ Len(getlevel(clustering, t2)) = 2
          /\ Len(getlevel(clustering, t3)) = 1

\* The clusters announced so far, in the order of their announcements.
Reported ==
    LET Big(c) == Len(c) > 2
    IN  SelectSeq(SubSeq(clusters, 1, position - 1), Big)

Ascending(c) == \A m, n \in DOMAIN c : m < n => c[m].datetime <= c[n].datetime

\* C10: every announced cluster is in ascending order of timestamp and its
\* announcement's time span runs from the earliest to the latest timestamp
\* of its members.
C10_TimeSpan ==
    Clustered =>
       \A n \in DOMAIN stdout :
          LET c == Reported[n]
              earliest == CHOOSE e \in Range(c) : \A f \in Range(c) : e.datetime <= f.datetime
              latest == CHOOSE e \in Range(c) : \A f \in Range(c) : f.datetime <= e.datetime
          IN  /\ Ascending(c)
              /\ stdout[n].von = strftime(earliest.datetime)
              /\ stdout[n].bis = strftime(latest.datetime)

====
